---- MODULE Spec2Model ----
(***************************************************************************)
(* Model of the M-Pesa relay (MpesaRoutes.js, supabase.js, index.js):      *)
(* the access-token cache with its single-flight acquisition, the B2C      *)
(* payout handler, the provider callbacks and the Express pipeline that    *)
(* runs in front of them.                                                  *)
(***************************************************************************)
EXTENDS Integers, Sequences, FiniteSets, TLC

VARIABLES
    cache,        \* accessTokenCache: token, expiresAt, inFlight
    promises,     \* one entry per started acquisition (the async IIFE)
    outstanding,  \* acquisitions whose axios.get has not completed yet
    httpCalls,    \* number of axios.get calls to the token endpoint so far
    clock,        \* Date.now()
    reqs,         \* inbound requests and the position of their handlers
    txs,          \* table "transactions", by id
    projects,     \* table "projects", by id
    b2cSent,      \* payout submissions accepted by axios.post so far
    deliveries,   \* callback deliveries: the number answered, the last one
                  \* answered, and those suspended at a store call
    granted,      \* the provider response behind the cached token: when, expires_in
    stkSent,      \* charge and status-query submissions accepted by axios.post so far
    limits,       \* the stores of the two rate limiters: hits and reset time per key
    validation    \* a request to /validate-phone and its answer

vars == <<cache, promises, outstanding, httpCalls, clock, reqs, txs, projects,
          b2cSent, deliveries, granted, stkSent, limits, validation>>

\* ---------------------------------------------------------------- bounds
MaxRequests == 3
MaxAcq == 2
MaxTicks == 1
MaxDeliveries == 2
MaxPayouts == 1
MaxRelayDeliveries == 1
MaxCharges == 1
MaxLimited == 6
MaxLimiterTicks == 2
MaxPhoneLen == 3
MaxLiveRequests == 2

\* ---------------------------------------------------------------- values
NULL == "null"
UNDEF == "undefined"
TokenError == "Failed to generate access token"

Tokens == {"tokA", "tokB"}

TickMs == 30 * 1000
MaxClock == MaxTicks * TickMs

\* expires_in as the provider may send it: a number, absent, or text
ExpiresIns ==
    {[k |-> "num", n |-> 0], [k |-> "num", n |-> 90], [k |-> "num", n |-> 3599],
     [k |-> "missing", n |-> 0], [k |-> "text", n |-> 0]}

\* outcomes of the axios.get to the token endpoint
AuthResponses ==
    {[kind |-> "ok", access_token |-> t, expires_in |-> e] :
        t \in Tokens \cup {UNDEF}, e \in ExpiresIns}
    \cup {[kind |-> "ok", access_token |-> t, expires_in |-> [k |-> "num", n |-> 3599]] :
        t \in {NULL, ""}}
    \cup {[kind |-> k, access_token |-> UNDEF, expires_in |-> [k |-> "missing", n |-> 0]] :
        k \in {"reject", "timeout"}}

NoAck == [ResponseCode |-> "none"]

\* ------------------------------------------------------------ record store
TxIds == {"t1", "t2"}
ProjIds == {"p1"}
ConvIds == {"AG_1", "AG_2"}
Statuses == {"pending", "held_in_escrow", "released", "failed"}

\* a row of "transactions": the columns the relay reads or writes.  An
\* optional number is a sequence of length 0 or 1.
NewTx ==
    [status |-> "pending", payment_intent_id |-> NULL,
     mpesa_conversation_id |-> NULL,
     mpesa_transaction_id |-> NULL, b2c_result_code |-> <<>>,
     b2c_result_description |-> NULL]

\* the payment intent each row was inserted with
IntentOf(t) == IF t = "t1" THEN "pi_1" ELSE "pi_2"

Intents == {"pi_1", "pi_2", "pi_9"}

\* outcomes of one call to the record store
StoreOutcomes == {"ok", "error", "throws"}

\* obj[key] of a JavaScript object: undefined when the key is absent
Get(obj, key) == IF key \in DOMAIN obj THEN obj[key] ELSE UNDEF

\* ------------------------------------------------------------ phone numbers
\* a string is the sequence of its characters; a character of Latin-1 is
\* written as itself, a character beyond Latin-1 by its code point ("U+2028")

\* the characters the class \s of a JavaScript regular expression matches:
\* tab, line feed, vertical tab, form feed, carriage return, space, U+00A0,
\* U+1680, U+2000 to U+200A, U+2028, U+2029, U+202F, U+205F, U+3000, U+FEFF
Whitespace ==
    {" ", "\t", "\n", "\r", "\f", "", " ",
     "U+1680", "U+2000", "U+2001", "U+2002", "U+2003", "U+2004",
     "U+2005", "U+2006", "U+2007", "U+2008", "U+2009", "U+200A",
     "U+2028", "U+2029", "U+202F", "U+205F", "U+3000", "U+FEFF"}

\* the characters /[\s\-+]/g matches
StripChars == Whitespace \cup {"-", "+"}

StartsWith(s, pre) == Len(s) >= Len(pre) /\ SubSeq(s, 1, Len(pre)) = pre

KeepChar_noPlus(ch) == ch \notin StripChars \ {"+"}

\* a character the replace of formatPhoneNumber leaves in place
KeepChar(ch) == ch \notin StripChars

\* formatPhoneNumber, on a string given as the sequence of its characters
formatPhoneNumber(phone) ==
    LET cleaned == SelectSeq(phone, KeepChar)
        c1 == IF StartsWith(cleaned, <<"0">>)
              THEN <<"2", "5", "4">> \o Tail(cleaned) ELSE cleaned
    IN  IF ~StartsWith(c1, <<"2", "5", "4">>) THEN <<"2", "5", "4">> \o c1 ELSE c1

\* Math.round of a number given in tenths
MathRound(t) == (t + 5) \div 10

\* Math.round(amount) as the request carries it: the number, or nothing for
\* the NaN of a text that is no number, which JSON writes as null
RoundAmount(a) == IF a.k = "num" THEN <<MathRound(a.t)>> ELSE <<>>

\* ------------------------------------------------------------ phone inputs
PhoneChars == {"0", "2", "5", "4", "7", "a", "+", " ", "-"}

\* every string of at most MaxPhoneLen characters
ShortPhones == UNION {[1..n -> PhoneChars] : n \in 0..MaxPhoneLen}

Subscriber == <<"7", "4", "6", "2", "2", "1", "9", "5", "4">>

PhonePrefixes ==
    {<<>>, <<"0">>, <<"+", "2", "5", "4">>, <<"2", "5", "4">>,
     <<"+", "2", "5", "4", " ">>, <<"0", "0">>, <<"2", "5", "4", "0">>, <<" ", "0">>}

PhoneTails ==
    {Subscriber,
     <<"7", "4", "6", "-", "2", "2", "1", " ", "9", "5", "4">>,
     <<"7", "4", "6", "2", "2", "1", "9", "a", "b">>,
     <<"7", "4", "6", "2", "2", "1", "9", "5">>,
     <<"7", "4", "6", "2", "2", "1", "9", "5", "4", "0">>,
     <<"7", "4", "6", "2", "+", "2", "1", "9", "5", "4", "\t">>,
     Subscriber \o <<"\r">>,
     Subscriber \o <<"U+2028">>,
     <<"U+FEFF", "7", "4", "6", "U+3000", "2", "2", "1", "9", "5", "4">>,
     <<"7", "4", "\f", "6", "2", "2", " ", "1", "9", "5", "4", "\n">>}

LongPhones == {pre \o tl : pre \in PhonePrefixes, tl \in PhoneTails}

\* req.body.phoneNumber of /validate-phone: absent, or a string
PhoneFields ==
    {[present |-> FALSE, s |-> <<>>]}
    \cup {[present |-> TRUE, s |-> p] : p \in ShortPhones \cup LongPhones}

NoValidation ==
    [phoneNumber |-> [present |-> FALSE, s |-> <<>>], pc |-> "idle", status |-> 0,
     formatted |-> <<>>, isValid |-> FALSE]

\* ------------------------------------------------------------ relay inputs
\* req.body before any field is read
NoBody ==
    [phoneNumber |-> [present |-> FALSE, s |-> <<>>],
     amount |-> [k |-> "undef", t |-> 0],
     transaction |-> UNDEF, finalProjectId |-> UNDEF,
     checkoutRequestID |-> UNDEF, originatorConversationID |-> UNDEF]

Phone1 == <<"0", "7", "4", "6", "2", "2", "1", "9", "5", "4">>

PayoutBodies ==
    {[phoneNumber |-> ph, amount |-> a, transaction |-> t, finalProjectId |-> fp,
      checkoutRequestID |-> UNDEF, originatorConversationID |-> UNDEF] :
        ph \in {[present |-> FALSE, s |-> <<>>], [present |-> TRUE, s |-> Phone1]},
        a \in {[k |-> "undef", t |-> 0], [k |-> "num", t |-> 95],
               [k |-> "num", t |-> 1004]},
        t \in {"t1", "t9", UNDEF, NULL},
        fp \in ProjIds \cup {UNDEF, "", "p9"}}

\* bodies of POST /stk-push: amounts in tenths, or a text that is no number
StkBodies ==
    {[NoBody EXCEPT !.phoneNumber = ph, !.amount = a] :
        ph \in {[present |-> FALSE, s |-> <<>>], [present |-> TRUE, s |-> <<>>],
                [present |-> TRUE, s |-> Phone1]},
        a \in {[k |-> "undef", t |-> 0], [k |-> "num", t |-> 0],
               [k |-> "num", t |-> 5], [k |-> "num", t |-> 10],
               [k |-> "num", t |-> 14], [k |-> "text", t |-> 0]}}

\* bodies of POST /query-stk
QueryBodies ==
    {[NoBody EXCEPT !.checkoutRequestID = c] : c \in {UNDEF, NULL, "", "ws_CO_1"}}

\* outcomes of the axios.post of a charge or a status query
StkResponses ==
    {[kind |-> "ok", data |-> [CheckoutRequestID |-> "ws_CO_1", ResponseCode |-> "0"]],
     [kind |-> "reject", data |-> NoAck]}

\* payout bodies in which the caller names an originator conversation id
TokenBodies ==
    {[NoBody EXCEPT !.phoneNumber = [present |-> TRUE, s |-> Phone1],
                    !.amount = [k |-> "num", t |-> 1004],
                    !.transaction = "t1",
                    !.originatorConversationID = o] : o \in {"idem_1", "idem_2"}}

\* outcomes of the axios.post of a payout: a 2xx acknowledgment or a rejection
B2CResponses ==
    {[kind |-> "ok", data |-> [ConversationID |-> c, ResponseCode |-> "0"]] :
        c \in ConvIds}
    \cup {[kind |-> "reject", data |-> NoAck]}

ResultCodes == {0, 2001}

\* what the provider posts to a callback URL.  kind "badjson": bytes that are
\* no JSON document; "empty": a JSON object without the provider envelope.
NoParams == [shape |-> "absent", TransactionID |-> UNDEF]

MalformedBodies ==
    {[kind |-> k, ResultCode |-> 0, ResultDesc |-> UNDEF, ConversationID |-> UNDEF,
      params |-> NoParams] : k \in {"badjson", "empty"}}

\* Result envelopes of the payout result
B2CResultBodies ==
    {[kind |-> "ok", ResultCode |-> rc, ResultDesc |-> "desc1", ConversationID |-> c,
      params |-> ps] :
        rc \in ResultCodes, c \in ConvIds,
        ps \in {NoParams, [shape |-> "array", TransactionID |-> "TX1"],
                [shape |-> "object", TransactionID |-> "TX1"]}}

\* Body.stkCallback envelopes of the charge result, and the timeout notice
OtherBodies ==
    {[kind |-> "ok", ResultCode |-> rc, ResultDesc |-> "desc1",
      ConversationID |-> UNDEF, params |-> NoParams] : rc \in ResultCodes}

CallbackBodies == B2CResultBodies \cup OtherBodies \cup MalformedBodies

BodiesOf(route) ==
    MalformedBodies \cup
        (IF route = "callback/b2c-result" THEN B2CResultBodies ELSE OtherBodies)

CallbackRoutes == {"callback/stk-push", "callback/b2c-result", "callback/b2c-timeout"}

Accepted == [status |-> 200, ResultCode |-> <<0>>, ResultDesc |-> "Accepted"]

\* the answer of the error-handling middleware of index.js
InternalServerError == [status |-> 500, ResultCode |-> <<>>, ResultDesc |-> UNDEF]

NoDeliveries ==
    [n |-> 0, route |-> "none", body |-> CHOOSE b \in CallbackBodies : b.kind = "empty",
     store |-> "none", answer |-> [status |-> 0, ResultCode |-> <<>>, ResultDesc |-> UNDEF],
     open |-> {}]

\* ------------------------------------------------------- access-token cache
ACCESS_TOKEN_BUFFER_MS == 60 * 1000

DEFAULT_EXPIRES_IN == 3599

NoGrant == [at |-> 0, ei |-> [k |-> "missing", n |-> 0]]

EmptyCache == [token |-> NULL, expiresAt |-> 0, inFlight |-> 0]

\* Number(expires_in) || 3599, times 1000
TtlMs(e) ==
    (IF e.k = "num" /\ e.n # 0 THEN e.n ELSE DEFAULT_EXPIRES_IN) * 1000

ExpiresAtFor(now, e) == now + TtlMs(e) - ACCESS_TOKEN_BUFFER_MS

CacheValid_ignoreExpiry(c, now) == c.token # NULL

\* accessTokenCache.token && accessTokenCache.expiresAt > now
CacheValid(c, now) == c.token # NULL /\ c.expiresAt > now

JoinInFlight_never(c) == FALSE

\* if (accessTokenCache.inFlight)
JoinInFlight(c) == c.inFlight # 0

AfterFailure_keep(c) == c

\* catch block: token = null, expiresAt = 0
AfterFailure(c) == [c EXCEPT !.token = NULL, !.expiresAt = 0]

\* finally block: inFlight = null
AfterFinally(c) == [c EXCEPT !.inFlight = 0]

FailureSettlement_hang == [st |-> "pending", val |-> NULL]

FailureSettlement_swallow == [st |-> "fulfilled", val |-> NULL]

\* throw new Error("Failed to generate access token")
FailureSettlement == [st |-> "rejected", val |-> TokenError]

\* return access_token
SuccessSettlement(resp) == [st |-> "fulfilled", val |-> resp.access_token]

\* !access_token
\* !v of a value that is a string, null or undefined
FalsyValue(v) == v \in {UNDEF, NULL, ""}

\* no response, or if (!access_token)
TokenMissing(resp) == resp.kind # "ok" \/ FalsyValue(resp.access_token)

NewPromise(prev) ==
    [st |-> "pending", val |-> NULL, resp |-> "pending", prevToken |-> prev,
     rtok |-> UNDEF]

\* One call of generateAccessToken up to its first suspension.  syncThrow says
\* whether the statements of the try block that run before the await
\* (Buffer.from, the axios.get call expression) raise.
generateAccessToken(syncThrow) ==
    IF CacheValid(cache, clock)
    THEN [cache |-> cache, promises |-> promises, outstanding |-> outstanding,
          httpCalls |-> httpCalls,
          ret |-> [via |-> "cache", p |-> 0, val |-> cache.token]]
    ELSE IF JoinInFlight(cache)
    THEN [cache |-> cache, promises |-> promises, outstanding |-> outstanding,
          httpCalls |-> httpCalls,
          ret |-> [via |-> "joined", p |-> cache.inFlight, val |-> NULL]]
    ELSE LET p == Len(promises) + 1 IN
         IF syncThrow
         THEN \* catch, finally, and only then the assignment of the IIFE's
              \* promise to accessTokenCache.inFlight
              [cache |-> [AfterFinally(AfterFailure(cache)) EXCEPT !.inFlight = p],
               promises |-> Append(promises,
                    [NewPromise(cache.token) EXCEPT
                        !.st = FailureSettlement.st, !.val = FailureSettlement.val,
                        !.resp = "threw"]),
               outstanding |-> outstanding,
               httpCalls |-> httpCalls + 1,
               ret |-> [via |-> "started", p |-> p, val |-> NULL]]
         ELSE [cache |-> [cache EXCEPT !.inFlight = p],
               promises |-> Append(promises, NewPromise(cache.token)),
               outstanding |-> outstanding \cup {p},
               httpCalls |-> httpCalls + 1,
               ret |-> [via |-> "started", p |-> p, val |-> NULL]]

\* whether a call made now would start an acquisition
WouldStart == ~CacheValid(cache, clock) /\ ~JoinInFlight(cache)

ApplyGA(g) ==
    /\ cache' = g.cache
    /\ promises' = g.promises
    /\ outstanding' = g.outstanding
    /\ httpCalls' = g.httpCalls

AwaitResult_readCache(pr, c) == c.token

\* what a caller awaiting the returned promise receives
AwaitResult(pr, c) == pr.val

\* ------------------------------------------------------------- requests
\* ip: req.ip; at: Date.now() when the request arrived
IdleReq ==
    [route |-> "none", pc |-> "idle", via |-> "none", p |-> 0, tok |-> NULL,
     status |-> 0, body |-> NoBody, ack |-> NoAck, txWrite |-> "none",
     projWrite |-> "none",
     ip |-> "none", at |-> 0, abandoned |-> FALSE]

Settled(p) == p \in 1..Len(promises) /\ promises[p].st # "pending"

\* GET /test-token: generateAccessToken and answer with the outcome
TestToken(r) ==
    /\ reqs[r].pc = "idle"
    /\ \E syncThrow \in BOOLEAN :
        /\ WouldStart => Len(promises) < MaxAcq
        /\ ~WouldStart => ~syncThrow
        /\ LET g == generateAccessToken(syncThrow) IN
            /\ ApplyGA(g)
            /\ reqs' = [reqs EXCEPT ![r] =
                    IF g.ret.via = "cache"
                    THEN [IdleReq EXCEPT !.route = "test-token", !.pc = "done",
                            !.via = "cache", !.tok = g.ret.val, !.status = 200]
                    ELSE [IdleReq EXCEPT !.route = "test-token", !.pc = "awaitToken",
                            !.via = g.ret.via, !.p = g.ret.p]]
    /\ UNCHANGED <<clock, txs, projects, b2cSent, deliveries, granted,
                   stkSent, limits, validation>>

TestTokenResume(r) ==
    /\ reqs[r].route = "test-token"
    /\ reqs[r].pc = "awaitToken"
    /\ Settled(reqs[r].p)
    /\ LET pr == promises[reqs[r].p] IN
        reqs' = [reqs EXCEPT ![r] =
            [@ EXCEPT !.pc = "done", !.tok = AwaitResult(pr, cache),
                      !.status = IF pr.st = "fulfilled" THEN 200 ELSE 500]]
    /\ UNCHANGED <<cache, promises, outstanding, httpCalls, clock, txs, projects,
                   b2cSent, deliveries, granted, stkSent, limits, validation>>

\* the continuation of the IIFE after `await axios.get(...)`
AuthRespond(p, resp) ==
    /\ p \in outstanding
    /\ outstanding' = outstanding \ {p}
    /\ IF TokenMissing(resp)
       THEN /\ cache' = AfterFinally(AfterFailure(cache))
            /\ promises' = [promises EXCEPT ![p] =
                    [@ EXCEPT !.st = FailureSettlement.st, !.val = FailureSettlement.val,
                              !.resp = IF resp.kind = "ok" THEN "notoken"
                                       ELSE resp.kind]]
            /\ UNCHANGED granted
       ELSE /\ cache' = AfterFinally([cache EXCEPT
                    !.token = resp.access_token,
                    !.expiresAt = ExpiresAtFor(clock, resp.expires_in)])
            /\ promises' = [promises EXCEPT ![p] =
                    [@ EXCEPT !.st = SuccessSettlement(resp).st,
                              !.val = SuccessSettlement(resp).val,
                              !.resp = "token", !.rtok = resp.access_token]]
            /\ granted' = [at |-> clock, ei |-> resp.expires_in]
    /\ UNCHANGED <<httpCalls, clock, reqs, txs, projects, b2cSent, deliveries,
                   stkSent, limits, validation>>

OnAbandon_cancel(out, p) == out \ {p}

\* what the close of a caller's connection does to the outstanding
\* acquisitions: axios.get is given headers and a timeout and no signal, and
\* no handler listens for the close
OnAbandon(out, p) == out

\* the caller of request r goes away while its handler is suspended
Abandon(r) ==
    /\ reqs[r].pc \notin {"idle", "done"}
    /\ ~reqs[r].abandoned
    /\ reqs' = [reqs EXCEPT ![r] = [@ EXCEPT !.abandoned = TRUE]]
    /\ outstanding' = OnAbandon(outstanding, reqs[r].p)
    /\ UNCHANGED <<cache, promises, httpCalls, clock, txs, projects, b2cSent,
                   deliveries, granted, stkSent, limits, validation>>

\* time passes, up to limit
Advance(limit) ==
    /\ clock < limit
    /\ clock' = clock + TickMs
    /\ UNCHANGED <<cache, promises, outstanding, httpCalls, reqs, txs, projects,
                   b2cSent, deliveries, granted, stkSent, limits, validation>>

Tick == Advance(MaxClock)

\* ------------------------------------------------------------ store writes
\* .update(values): JSON.stringify drops the keys whose value is undefined,
\* so such a column keeps what it held
UpdateRow(row, upd) ==
    [c \in DOMAIN row |->
        IF c \notin DOMAIN upd THEN row[c]
        ELSE IF c = "b2c_result_code" THEN upd[c]
        ELSE IF upd[c] = UNDEF THEN row[c] ELSE upd[c]]

\* .eq("id", transaction.id)
MatchesId(id, key) == id = key

\* .eq('mpesa_conversation_id', ConversationID)
MatchesConv(row, conv) == row.mpesa_conversation_id = conv

\* .eq("payment_intent_id", Intent)
MatchesIntent(row, Intent) == row.payment_intent_id = Intent

\* the values updateTransaction writes (escrowed_at is a timestamp no handler reads)
EscrowUpdate == [status |-> "held_in_escrow"]

\* updateTransaction(Intent): the escrow confirmation, one store call
updateTransaction(Intent, outcome) ==
    /\ txs' = IF outcome = "ok"
              THEN [t \in DOMAIN txs |->
                        IF MatchesIntent(txs[t], Intent)
                        THEN UpdateRow(txs[t], EscrowUpdate)
                        ELSE txs[t]]
              ELSE txs
    /\ UNCHANGED <<cache, promises, outstanding, httpCalls, clock, reqs, projects,
                   b2cSent, deliveries, granted, stkSent, limits, validation>>

\* const defaultUpdates = { status: "released", updated_at }
DefaultUpdates == [status |-> "released"]

\* { ...a, ...b }: the keys of both, those of b winning
Spread(a, b) ==
    [c \in DOMAIN a \cup DOMAIN b |-> IF c \in DOMAIN b THEN b[c] ELSE a[c]]

\* the second argument of updateById, which is the caller's: omitted
\* (updates = {}), or the columns the caller names. The function is exported
\* and src/ holds no call of it, so nothing narrows what a caller passes
UpdateSets ==
    {[c \in {} |-> UNDEF],
     [status |-> "pending"],
     [status |-> "failed", mpesa_conversation_id |-> "AG_1"]}

\* updateById(transactionId, updates): one store call
updateById(transactionId, updates, outcome) ==
    /\ txs' = IF outcome = "ok"
              THEN [t \in DOMAIN txs |->
                        IF MatchesId(t, transactionId)
                        THEN UpdateRow(txs[t], Spread(DefaultUpdates, updates))
                        ELSE txs[t]]
              ELSE txs
    /\ UNCHANGED <<cache, promises, outstanding, httpCalls, clock, reqs, projects,
                   b2cSent, deliveries, granted, stkSent, limits, validation>>

\* the ids the store gives to rows inserted later
NewIds == {"t3"}

\* InsertTransaction(..., paymentIntentId): a new row with status pending
InsertTransaction(paymentIntentId, outcome) ==
    /\ NewIds \ DOMAIN txs # {}
    /\ txs' = IF outcome = "ok"
              THEN LET id == CHOOSE i \in NewIds \ DOMAIN txs : TRUE
                   IN  [t \in DOMAIN txs \cup {id} |->
                            IF t = id
                            THEN [NewTx EXCEPT !.payment_intent_id = paymentIntentId]
                            ELSE txs[t]]
              ELSE txs
    /\ UNCHANGED <<cache, promises, outstanding, httpCalls, clock, reqs, projects,
                   b2cSent, deliveries, granted, stkSent, limits, validation>>

\* ------------------------------------------------------------ POST /b2c-payment
Falsy(ph) == ~ph.present \/ ph.s = <<>>

\* !amount: undefined or the number 0; a non-empty text is truthy
FalsyAmount(a) == a.k = "undef" \/ (a.k = "num" /\ a.t = 0)

\* amount < n: a text that is no number compares as NaN, which is never less
LessThan(a, n) == a.k = "num" /\ a.t < n * 10

PayoutRejected_min1(body) ==
    \/ Falsy(body.phoneNumber) \/ FalsyAmount(body.amount)
    \/ LessThan(body.amount, 1)

\* the two validation returns of the handler
PayoutRejected(body) ==
    \/ Falsy(body.phoneNumber) \/ FalsyAmount(body.amount)
    \/ LessThan(body.amount, 10)

B2C_ORIGINATOR_ID == "600997_Test_32et3241ed8yu"

b2cPayload(body, tok) ==
    [OriginatorConversationID |-> B2C_ORIGINATOR_ID,
     Amount |-> RoundAmount(body.amount),
     PartyB |-> formatPhoneNumber(body.phoneNumber.s),
     bearer |-> tok]

\* the handler from the token to the suspension at axios.post
B2CSubmit(r, req, tok) ==
    /\ b2cSent' = Append(b2cSent, b2cPayload(req.body, tok))
    /\ reqs' = [reqs EXCEPT ![r] = [req EXCEPT !.pc = "awaitB2C", !.tok = tok]]

B2CPayment(r, body, syncThrow) ==
    /\ reqs[r].pc = "idle"
    /\ IF PayoutRejected(body)
       THEN /\ ~syncThrow
            /\ reqs' = [reqs EXCEPT ![r] =
                    [IdleReq EXCEPT !.route = "b2c-payment", !.pc = "done",
                                    !.status = 400, !.body = body]]
            /\ UNCHANGED <<cache, promises, outstanding, httpCalls, b2cSent>>
       ELSE /\ WouldStart => Len(promises) < MaxAcq
            /\ ~WouldStart => ~syncThrow
            /\ LET g == generateAccessToken(syncThrow)
                   req == [IdleReq EXCEPT !.route = "b2c-payment", !.body = body,
                                          !.via = g.ret.via, !.p = g.ret.p]
               IN /\ ApplyGA(g)
                  /\ IF g.ret.via = "cache"
                     THEN B2CSubmit(r, req, g.ret.val)
                     ELSE /\ reqs' = [reqs EXCEPT ![r] = [req EXCEPT !.pc = "awaitToken"]]
                          /\ UNCHANGED b2cSent
    /\ UNCHANGED <<clock, txs, projects, deliveries, granted, stkSent, limits,
                   validation>>

B2CTokenResume(r) ==
    /\ reqs[r].route = "b2c-payment"
    /\ reqs[r].pc = "awaitToken"
    /\ Settled(reqs[r].p)
    /\ LET pr == promises[reqs[r].p] IN
        IF pr.st = "fulfilled"
        THEN B2CSubmit(r, reqs[r], AwaitResult(pr, cache))
        ELSE /\ reqs' = [reqs EXCEPT ![r] =
                    [@ EXCEPT !.pc = "done", !.tok = AwaitResult(pr, cache),
                              !.status = 500]]
             /\ UNCHANGED b2cSent
    /\ UNCHANGED <<cache, promises, outstanding, httpCalls, clock, txs, projects,
                   deliveries, granted, stkSent, limits, validation>>

\* axios.post settles; on a 2xx the handler builds the transactions update,
\* which reads transaction.id
B2CProviderRespond(r, resp) ==
    /\ reqs[r].pc = "awaitB2C"
    /\ reqs' = [reqs EXCEPT ![r] =
            IF resp.kind # "ok"
            THEN [@ EXCEPT !.pc = "done", !.status = 500]
            ELSE IF reqs[r].body.transaction \in {UNDEF, NULL}
            THEN [@ EXCEPT !.pc = "done", !.status = 500, !.ack = resp.data]
            ELSE [@ EXCEPT !.pc = "awaitTxUpdate", !.ack = resp.data]]
    /\ UNCHANGED <<cache, promises, outstanding, httpCalls, clock, txs, projects,
                   b2cSent, deliveries, granted, stkSent, limits, validation>>

\* the values of the update after the acknowledgment
PayoutTxUpdate(ack) ==
    [status |-> "released", mpesa_conversation_id |-> Get(ack, "conversationID")]

\* the store executes the update of transactions the handler of request r
\* awaits; the handler is still suspended
B2CTxUpdateStore(r, outcome) ==
    /\ reqs[r].pc = "awaitTxUpdate"
    /\ txs' = IF outcome = "ok"
              THEN [t \in DOMAIN txs |->
                        IF MatchesId(t, reqs[r].body.transaction)
                        THEN UpdateRow(txs[t], PayoutTxUpdate(reqs[r].ack))
                        ELSE txs[t]]
              ELSE txs
    /\ reqs' = [reqs EXCEPT ![r] =
                    [@ EXCEPT !.pc = "resumeTxUpdate", !.txWrite = outcome]]
    /\ UNCHANGED <<cache, promises, outstanding, httpCalls, clock, projects,
                   b2cSent, deliveries, granted, stkSent, limits, validation>>

\* the handler resumes after the await: the catch block when the call
\* threw, else if (finalProjectId) updateProject, else the 200
B2CTxUpdateDone(r) ==
    /\ reqs[r].pc = "resumeTxUpdate"
    /\ reqs' = [reqs EXCEPT ![r] =
            IF reqs[r].txWrite = "throws"
            THEN [@ EXCEPT !.pc = "done", !.status = 500]
            ELSE IF ~FalsyValue(reqs[r].body.finalProjectId)
            THEN [@ EXCEPT !.pc = "awaitProjSelect"]
            ELSE [@ EXCEPT !.pc = "done", !.status = 200]]
    /\ UNCHANGED <<cache, promises, outstanding, httpCalls, clock, txs, projects,
                   b2cSent, deliveries, granted, stkSent, limits, validation>>

ProjectStepStatus_propagate(projError) == IF projError THEN 500 ELSE 200

\* if (projError) console.error(...) else console.log(...); res.status(200)
ProjectStepStatus(projError) == 200

\* updateProject: the select; its errors are returned, never raised. The
\* call in slot r is the payout handler's, which answers when updateProject
\* returns, or a call of the exported helper from elsewhere, which has no
\* answer to give
ProjSelectDone(r, outcome) ==
    /\ reqs[r].pc = "awaitProjSelect"
    /\ reqs' = [reqs EXCEPT ![r] =
            IF outcome = "ok" /\ reqs[r].body.finalProjectId \in DOMAIN projects
            THEN [@ EXCEPT !.pc = "awaitProjUpdate"]
            ELSE [@ EXCEPT !.pc = "done",
                           !.projWrite = "error",
                           !.status = IF reqs[r].route = "b2c-payment"
                                      THEN ProjectStepStatus(TRUE) ELSE 0]]
    /\ UNCHANGED <<cache, promises, outstanding, httpCalls, clock, txs, projects,
                   b2cSent, deliveries, granted, stkSent, limits, validation>>

\* .update({ status: "completed" }).eq("id", id)
CompleteProject(id) ==
    [j \in DOMAIN projects |-> IF j = id THEN "completed" ELSE projects[j]]

\* updateProject: the store executes the update to completed; the handler
\* is still suspended
ProjUpdateStore(r, outcome) ==
    /\ reqs[r].pc = "awaitProjUpdate"
    /\ projects' = IF outcome = "ok"
                   THEN CompleteProject(reqs[r].body.finalProjectId)
                   ELSE projects
    /\ reqs' = [reqs EXCEPT ![r] =
                    [@ EXCEPT !.pc = "resumeProjUpdate", !.projWrite = outcome]]
    /\ UNCHANGED <<cache, promises, outstanding, httpCalls, clock, txs, b2cSent,
                   deliveries, granted, stkSent, limits, validation>>

\* updateProject returns; the payout handler answers 200
ProjUpdateDone(r) ==
    /\ reqs[r].pc = "resumeProjUpdate"
    /\ reqs' = [reqs EXCEPT ![r] =
            [@ EXCEPT !.pc = "done",
                      !.status = IF reqs[r].route = "b2c-payment"
                                 THEN ProjectStepStatus(reqs[r].projWrite # "ok")
                                 ELSE 0]]
    /\ UNCHANGED <<cache, promises, outstanding, httpCalls, clock, txs, projects,
                   b2cSent, deliveries, granted, stkSent, limits, validation>>

\* updateProject(id) called outside a payout (the helper is exported): the
\* call takes slot r and awaits its select; ProjSelectDone, ProjUpdateStore
\* and ProjUpdateDone are its further steps
updateProject(r, id) ==
    /\ reqs[r].pc = "idle"
    /\ reqs' = [reqs EXCEPT ![r] =
            [IdleReq EXCEPT !.route = "updateProject", !.pc = "awaitProjSelect",
                            !.body = [NoBody EXCEPT !.finalProjectId = id],
                            !.at = clock]]
    /\ UNCHANGED <<cache, promises, outstanding, httpCalls, clock, txs, projects,
                   b2cSent, deliveries, granted, stkSent, limits, validation>>

\* ------------------------------------------------------------ rate limiting
\* rateLimit({windowMs, max, message}) of express-rate-limit with its
\* memory store. The package is a dependency resolved at install time, and
\* its releases differ in when the store forgets the hits of a key:
\*   "perKey":   the window of a key opens with the key's first hit and
\*               closes windowMs later;
\*   "interval": a timer started with the limiter forgets the hits of all
\*               keys every windowMs.
\* Which one runs is decided by the installed release, so both are kept.
WINDOW_MS == 60 * 1000

QUERY_MAX == 4

STK_MAX == 3

Ips == {"ip1", "ip2"}

Limiters == {"query", "stk"}

LimiterStores == {"perKey", "interval"}

MaxHits(l) == IF l = "query" THEN QUERY_MAX ELSE STK_MAX

\* the two limiters as the module creates them at time 0
NoLimits(store) ==
    [l \in Limiters |->
        [ip \in Ips |->
            [hits |-> 0,
             resetTime |-> IF store = "interval" THEN WINDOW_MS ELSE 0,
             store |-> store]]]

\* keyGenerator: req.ip (the default of mpesaStkLimiter as well)
KeyOf(ip) == ip

\* the store's increment of a key: in a window that is over the count
\* starts again at 1, and the window ends windowMs after this hit
\* ("perKey") or at the next tick of the limiter's timer ("interval")
Hit(entry, now) ==
    IF now >= entry.resetTime
    THEN [entry EXCEPT
            !.hits = 1,
            !.resetTime = IF entry.store = "interval"
                          THEN ((now \div WINDOW_MS) + 1) * WINDOW_MS
                          ELSE now + WINDOW_MS]
    ELSE [entry EXCEPT !.hits = @ + 1]

\* the limiter l counting a request of ip now
Count(l, ip, now) ==
    [limits EXCEPT ![l][KeyOf(ip)] = Hit(limits[l][KeyOf(ip)], now)]

\* hits > max: the middleware answers with the message and skips the handler
OverLimit(l, entry) == entry.hits > MaxHits(l)

TooManyRequests == 429

\* the request as the limiter answers it
LimitedReq(route, ip, body) ==
    [IdleReq EXCEPT !.route = route, !.pc = "done", !.status = TooManyRequests,
                    !.body = body, !.ip = ip, !.at = clock]

\* ------------------------------------------------ POST /stk-push, /query-stk
\* MPESA_CONFIG.shortCode and MPESA_CONFIG.passKey, read from the environment
SHORT_CODE == "env.MPESA_SHORTCODE"

PASS_KEY == "env.MPESA_PASSKEY"

DigitChars == <<"0", "1", "2", "3", "4", "5", "6", "7", "8", "9">>

\* two decimal digits of a number below 100
Pad2(n) == <<DigitChars[(n \div 10) + 1], DigitChars[(n % 10) + 1]>>

\* new Date().toISOString().replace(/[^0-9]/g, "").slice(0, -3): YYYYMMDDHHmmss,
\* for a time now (milliseconds) within the first day the clock counts from
TimestampOf(now) ==
    LET sec == now \div 1000
    IN  <<"1", "9", "7", "0", "0", "1", "0", "1">>
            \o Pad2(sec \div 3600) \o Pad2((sec \div 60) % 60) \o Pad2(sec % 60)

\* Buffer.from(shortCode + passKey + timestamp).toString("base64"): one
\* encoding per text, written by the parts of the text
Base64(shortCode, passKey, timestamp) ==
    [base64 |-> <<shortCode, passKey, timestamp>>]

\* generatePassword() called at time now
generatePassword(now) ==
    [timestamp |-> TimestampOf(now),
     password |-> Base64(SHORT_CODE, PASS_KEY, TimestampOf(now))]

\* the literal Timestamp of the two payloads
STK_TIMESTAMP ==
    <<"2", "0", "2", "1", "0", "6", "2", "8", "0", "9", "2", "4", "0", "8">>

\* the literal Password of the two payloads: the base64 text of
\* 174379 + bfb279f9...c919 + 20210628092408
STK_PASSWORD ==
    Base64("174379",
           "bfb279f9aa9bdbcf158e97dd71a467cd2e0c893059b10f78e6b72ada1ed2c919",
           STK_TIMESTAMP)

\* const { password, timestamp } = generatePassword(); the payload then
\* names the two literals
SignedWith(g) == [timestamp |-> STK_TIMESTAMP, password |-> STK_PASSWORD]

StkRejected_noMin(body) ==
    Falsy(body.phoneNumber) \/ FalsyAmount(body.amount)

\* the two validation returns of /stk-push
StkRejected(body) ==
    \/ Falsy(body.phoneNumber) \/ FalsyAmount(body.amount)
    \/ LessThan(body.amount, 1)

\* !checkoutRequestID
\* if (!checkoutRequestID)
QueryRejected(body) == FalsyValue(body.checkoutRequestID)

Rejected(route, body) ==
    IF route = "stk-push" THEN StkRejected(body) ELSE QueryRejected(body)

stkPushPayload(body, tok) ==
    [endpoint |-> "stkpush/v1/processrequest",
     builtAt |-> clock,
     Password |-> SignedWith(generatePassword(clock)).password,
     Timestamp |-> SignedWith(generatePassword(clock)).timestamp,
     Amount |-> RoundAmount(body.amount),
     PartyA |-> formatPhoneNumber(body.phoneNumber.s),
     CheckoutRequestID |-> UNDEF, bearer |-> tok]

queryPayload(body, tok) ==
    [endpoint |-> "stkpushquery/v1/query",
     builtAt |-> clock,
     Password |-> SignedWith(generatePassword(clock)).password,
     Timestamp |-> SignedWith(generatePassword(clock)).timestamp,
     Amount |-> <<>>, PartyA |-> <<>>,
     CheckoutRequestID |-> body.checkoutRequestID, bearer |-> tok]

PayloadOf(req, tok) ==
    IF req.route = "stk-push" THEN stkPushPayload(req.body, tok)
    ELSE queryPayload(req.body, tok)

\* the handler from the token to the suspension at axios.post
ChargeSubmit(r, req, tok) ==
    /\ stkSent' = Append(stkSent, PayloadOf(req, tok))
    /\ reqs' = [reqs EXCEPT ![r] = [req EXCEPT !.pc = "awaitProvider", !.tok = tok]]

\* a request to one of the two routes: the limiter, the validation, the token
Charge(route, l, r, ip, body, syncThrow) ==
    /\ reqs[r].pc = "idle"
    /\ limits' = Count(l, ip, clock)
    /\ IF OverLimit(l, limits'[l][KeyOf(ip)])
       THEN /\ ~syncThrow
            /\ reqs' = [reqs EXCEPT ![r] = LimitedReq(route, ip, body)]
            /\ UNCHANGED <<cache, promises, outstanding, httpCalls, stkSent>>
       ELSE IF Rejected(route, body)
       THEN /\ ~syncThrow
            /\ reqs' = [reqs EXCEPT ![r] =
                    [IdleReq EXCEPT !.route = route, !.pc = "done", !.status = 400,
                                    !.body = body, !.ip = ip, !.at = clock]]
            /\ UNCHANGED <<cache, promises, outstanding, httpCalls, stkSent>>
       ELSE /\ WouldStart => Len(promises) < MaxAcq
            /\ ~WouldStart => ~syncThrow
            /\ LET g == generateAccessToken(syncThrow)
                   req == [IdleReq EXCEPT !.route = route, !.body = body,
                                          !.ip = ip, !.at = clock,
                                          !.via = g.ret.via, !.p = g.ret.p]
               IN /\ ApplyGA(g)
                  /\ IF g.ret.via = "cache"
                     THEN ChargeSubmit(r, req, g.ret.val)
                     ELSE /\ reqs' = [reqs EXCEPT ![r] = [req EXCEPT !.pc = "awaitToken"]]
                          /\ UNCHANGED stkSent
    /\ UNCHANGED <<clock, txs, projects, b2cSent, deliveries, granted, validation>>

\* POST /stk-push behind mpesaStkLimiter
STKPush(r, ip, body, syncThrow) == Charge("stk-push", "stk", r, ip, body, syncThrow)

\* POST /query-stk behind mpesaQueryLimiter
QueryStk(r, ip, body, syncThrow) == Charge("query-stk", "query", r, ip, body, syncThrow)

ChargeRoutes == {"stk-push", "query-stk"}

ChargeTokenResume(r) ==
    /\ reqs[r].route \in ChargeRoutes
    /\ reqs[r].pc = "awaitToken"
    /\ Settled(reqs[r].p)
    /\ LET pr == promises[reqs[r].p] IN
        IF pr.st = "fulfilled"
        THEN ChargeSubmit(r, reqs[r], AwaitResult(pr, cache))
        ELSE /\ reqs' = [reqs EXCEPT ![r] =
                    [@ EXCEPT !.pc = "done", !.tok = AwaitResult(pr, cache),
                              !.status = 500]]
             /\ UNCHANGED stkSent
    /\ UNCHANGED <<cache, promises, outstanding, httpCalls, clock, txs, projects,
                   b2cSent, deliveries, granted, limits, validation>>

\* axios.post settles: 200 with the provider's data, or the catch block's 500
ChargeProviderRespond(r, resp) ==
    /\ reqs[r].pc = "awaitProvider"
    /\ reqs' = [reqs EXCEPT ![r] =
            IF resp.kind # "ok"
            THEN [@ EXCEPT !.pc = "done", !.status = 500]
            ELSE [@ EXCEPT !.pc = "done", !.status = 200, !.ack = resp.data]]
    /\ UNCHANGED <<cache, promises, outstanding, httpCalls, clock, txs, projects,
                   b2cSent, deliveries, granted, stkSent, limits, validation>>

\* ------------------------------------------------------ POST /validate-phone
\* formattedPhone.length !== 12 || !formattedPhone.startsWith("254")
InvalidKenyan(formatted) ==
    Len(formatted) # 12 \/ ~StartsWith(formatted, <<"2", "5", "4">>)

\* the handler, which runs to its answer without suspending
ValidatePhone ==
    /\ validation.pc = "idle"
    /\ validation' =
            IF Falsy(validation.phoneNumber)
            THEN [validation EXCEPT !.pc = "done", !.status = 400]
            ELSE LET formattedPhone == formatPhoneNumber(validation.phoneNumber.s) IN
                 IF InvalidKenyan(formattedPhone)
                 THEN [validation EXCEPT !.pc = "done", !.status = 400]
                 ELSE [validation EXCEPT !.pc = "done", !.status = 200,
                                         !.formatted = formattedPhone,
                                         !.isValid = TRUE]
    /\ UNCHANGED <<cache, promises, outstanding, httpCalls, clock, reqs, txs,
                   projects, b2cSent, deliveries, granted, stkSent, limits>>

\* ------------------------------------------------------------ callbacks
\* express.json() of index.js: a body that is no JSON document is handed to
\* the error-handling middleware and the route is never entered
JsonParses(body) == body.kind # "badjson"

\* const { Result } = req.body; const { ResultCode, ... } = Result;
HasEnvelope(body) == body.kind = "ok"

IsSuccess(body) == body.ResultCode = 0

\* the values of the two updates of /callback/b2c-result: the success
\* branch writes the string '0' as the code, the failure branch the number
\* of the envelope
ResultUpdate(body) ==
    IF IsSuccess(body)
    THEN [status |-> "released",
          mpesa_transaction_id |-> body.params.TransactionID,
          b2c_result_code |-> <<[js |-> "string", n |-> 0]>>,
          b2c_result_description |-> body.ResultDesc]
    ELSE [status |-> "failed",
          b2c_result_code |-> <<[js |-> "number", n |-> body.ResultCode]>>,
          b2c_result_description |-> body.ResultDesc]

WritesStore_any(route, body) == JsonParses(body) /\ HasEnvelope(body)

\* Result.ResultParameters?.ResultParameter?.forEach(...) of the success
\* branch: a ResultParameter that is one object has no forEach, and the
\* TypeError takes the handler to its catch block
ForEachThrows(body) == IsSuccess(body) /\ body.params.shape = "object"

\* whether the handler of the route reaches a store call for this body
WritesStore(route, body) ==
    /\ route = "callback/b2c-result"
    /\ JsonParses(body) /\ HasEnvelope(body)
    /\ ~ForEachThrows(body)

\* the deliveries that have arrived: answered, or suspended at a store call
Arrived == deliveries.n + Cardinality(deliveries.open)

\* one delivery to a callback URL, from the middleware to the answer or, in
\* /callback/b2c-result, to the await of the store call, where the handler
\* returns to the event loop with its update on the way to the store
Callback(route, body) ==
    /\ deliveries' =
            IF WritesStore(route, body)
            THEN [deliveries EXCEPT !.open =
                    @ \cup {[id |-> Arrived + 1, route |-> route, body |-> body,
                             store |-> "sent"]}]
            ELSE [deliveries EXCEPT
                    !.n = @ + 1, !.route = route, !.body = body, !.store = "none",
                    !.answer = IF JsonParses(body) THEN Accepted
                               ELSE InternalServerError]
    /\ UNCHANGED <<cache, promises, outstanding, httpCalls, clock, reqs, txs,
                   projects, b2cSent, granted, stkSent, limits, validation>>

\* the store executes the update of the suspended delivery d
CallbackStoreDone(d, outcome) ==
    /\ d \in deliveries.open
    /\ d.store = "sent"
    /\ txs' = IF outcome = "ok"
              THEN [t \in DOMAIN txs |->
                        IF MatchesConv(txs[t], d.body.ConversationID)
                        THEN UpdateRow(txs[t], ResultUpdate(d.body))
                        ELSE txs[t]]
              ELSE txs
    /\ deliveries' = [deliveries EXCEPT
                        !.open = (@ \ {d}) \cup {[d EXCEPT !.store = outcome]}]
    /\ UNCHANGED <<cache, promises, outstanding, httpCalls, clock, reqs, projects,
                   b2cSent, granted, stkSent, limits, validation>>

\* the handler of delivery d resumes after its await, or in its catch block
\* when the store call threw, and answers
CallbackResume(d) ==
    /\ d \in deliveries.open
    /\ d.store # "sent"
    /\ deliveries' =
            [n |-> deliveries.n + 1, route |-> d.route, body |-> d.body,
             store |-> d.store, answer |-> Accepted, open |-> deliveries.open \ {d}]
    /\ UNCHANGED <<cache, promises, outstanding, httpCalls, clock, reqs, txs,
                   projects, b2cSent, granted, stkSent, limits, validation>>

\* ------------------------------------------------------------- relay spec
\* the token outcomes that differ in how an acquisition ends
LiveAuthResponses ==
    {resp \in AuthResponses :
        /\ resp.access_token \in {"tokA", UNDEF}
        /\ resp.expires_in.k \in {"num", "missing"}
        /\ resp.expires_in.n \in {0, 90}
        /\ resp.kind # "reject"}

\* rows as other services of the platform leave them before a payout
TxRows ==
    {[NewTx EXCEPT !.status = st, !.mpesa_conversation_id = c] :
        st \in {"pending", "held_in_escrow"}, c \in ConvIds \cup {NULL}}

InitRelay ==
    /\ cache = EmptyCache
    /\ promises = <<>>
    /\ outstanding = {}
    /\ httpCalls = 0
    /\ clock = 0
    /\ reqs = [r \in 1..(MaxPayouts + 1) |-> IdleReq]
    /\ txs \in {[t \in TxIds |-> [f[t] EXCEPT !.payment_intent_id = IntentOf(t)]] :
                    f \in {g \in [TxIds -> TxRows] :
                                /\ g["t1"].status = "pending"
                                /\ g["t1"].mpesa_conversation_id = "AG_1"
                                /\ g["t2"].status = "held_in_escrow"
                                /\ g["t2"].mpesa_conversation_id = "AG_2"}}
    /\ projects = [j \in ProjIds |-> "in_progress"]
    /\ b2cSent = <<>>
    /\ deliveries = NoDeliveries
    /\ granted = NoGrant
    /\ stkSent = <<>>
    /\ limits = NoLimits("perKey")
    /\ validation = NoValidation

\* payouts of row t1 that pass the validation and name no project (the
\* project steps run in the calls of updateProject)
RelayBodies ==
    {body \in PayoutBodies :
        /\ ~PayoutRejected(body)
        /\ body.transaction = "t1"
        /\ body.finalProjectId = UNDEF}

\* the payout results for the conversation of row t1 that list their
\* parameters
RelayResults ==
    {body \in B2CResultBodies :
        body.params.shape = "array" /\ body.ConversationID = "AG_1"}

\* the token endpoint answers with a token, or the call runs into its timeout
RelayAuthResponses ==
    {resp \in LiveAuthResponses :
        \/ resp.kind = "timeout"
        \/ resp.access_token = "tokA" /\ resp.expires_in = [k |-> "num", n |-> 90]}

NextRelay ==
    \/ \E r \in 1..MaxPayouts, body \in RelayBodies : B2CPayment(r, body, FALSE)
    \/ \E r \in 1..MaxPayouts : B2CTokenResume(r)
    \/ \E p \in 1..MaxAcq, resp \in RelayAuthResponses : AuthRespond(p, resp)
    \/ \E r \in 1..MaxPayouts,
            resp \in {x \in B2CResponses :
                        x.kind = "reject" \/ x.data.ConversationID = "AG_1"} :
            B2CProviderRespond(r, resp)
    \/ \E r \in 1..MaxPayouts, outcome \in StoreOutcomes : B2CTxUpdateStore(r, outcome)
    \/ \E r \in 1..MaxPayouts : B2CTxUpdateDone(r)
    \/ \E r \in DOMAIN reqs, outcome \in StoreOutcomes : ProjSelectDone(r, outcome)
    \/ \E r \in DOMAIN reqs, outcome \in StoreOutcomes : ProjUpdateStore(r, outcome)
    \/ \E r \in DOMAIN reqs : ProjUpdateDone(r)
    \/ \E body \in RelayResults :
            /\ Arrived < MaxRelayDeliveries
            /\ Callback("callback/b2c-result", body)
    \/ \E d \in deliveries.open, outcome \in StoreOutcomes : CallbackStoreDone(d, outcome)
    \/ \E d \in deliveries.open : CallbackResume(d)
    \/ \E Intent \in Intents, outcome \in StoreOutcomes :
            updateTransaction(Intent, outcome)
    \/ \E t \in TxIds, updates \in UpdateSets, outcome \in StoreOutcomes :
            updateById(t, updates, outcome)
    \/ \E Intent \in Intents, outcome \in StoreOutcomes :
            InsertTransaction(Intent, outcome)
    \/ \E id \in ProjIds \cup {"p9"} : updateProject(MaxPayouts + 1, id)

SpecRelay == InitRelay /\ [][NextRelay]_vars

\* --------------------------------------------------------------- live spec
InitLive ==
    /\ cache = EmptyCache
    /\ promises = <<>>
    /\ outstanding = {}
    /\ httpCalls = 0
    /\ clock = 0
    /\ reqs = [r \in 1..MaxLiveRequests |-> IdleReq]
    /\ txs = [t \in TxIds |-> NewTx]
    /\ projects = [j \in ProjIds |-> "in_progress"]
    /\ b2cSent = <<>>
    /\ deliveries = NoDeliveries
    /\ granted = NoGrant
    /\ stkSent = <<>>
    /\ limits = NoLimits("perKey")
    /\ validation = NoValidation

\* the provider call ends: an answer, or the timeout of 10000 ms
ProviderAnswers == \E p \in 1..MaxAcq, resp \in LiveAuthResponses : AuthRespond(p, resp)

\* the event loop runs the continuation of a settled await
WaitersResume == \E r \in 1..MaxLiveRequests : TestTokenResume(r)

NextLive ==
    \/ \E r \in 1..MaxLiveRequests : TestToken(r)
    \/ WaitersResume
    \/ ProviderAnswers
    \/ \E r \in 1..MaxLiveRequests : Abandon(r)
    \/ Tick

SpecLive ==
    /\ InitLive
    /\ [][NextLive]_vars
    /\ WF_vars(ProviderAnswers)
    /\ WF_vars(WaitersResume)

\* ------------------------------------------------------------- payout spec
\* payout requests alone, for rows that are held in escrow
InitPayout ==
    /\ cache = EmptyCache
    /\ promises = <<>>
    /\ outstanding = {}
    /\ httpCalls = 0
    /\ clock = 0
    /\ reqs = [r \in 1..MaxPayouts |-> IdleReq]
    /\ txs = [t \in TxIds |->
                [NewTx EXCEPT !.status = "held_in_escrow",
                              !.payment_intent_id = IntentOf(t)]]
    /\ projects = [j \in ProjIds |-> "in_progress"]
    /\ b2cSent = <<>>
    /\ deliveries = NoDeliveries
    /\ granted = NoGrant
    /\ stkSent = <<>>
    /\ limits = NoLimits("perKey")
    /\ validation = NoValidation

NextPayout ==
    \/ \E r \in 1..MaxPayouts, body \in PayoutBodies \cup TokenBodies,
          syncThrow \in BOOLEAN :
            B2CPayment(r, body, syncThrow)
    \/ \E r \in 1..MaxPayouts : B2CTokenResume(r)
    \/ \E p \in 1..MaxAcq, resp \in LiveAuthResponses : AuthRespond(p, resp)
    \/ \E r \in 1..MaxPayouts, resp \in B2CResponses : B2CProviderRespond(r, resp)
    \/ \E r \in 1..MaxPayouts, outcome \in StoreOutcomes : B2CTxUpdateStore(r, outcome)
    \/ \E r \in 1..MaxPayouts : B2CTxUpdateDone(r)
    \/ \E r \in 1..MaxPayouts, outcome \in StoreOutcomes : ProjSelectDone(r, outcome)
    \/ \E r \in 1..MaxPayouts, outcome \in StoreOutcomes : ProjUpdateStore(r, outcome)
    \/ \E r \in 1..MaxPayouts : ProjUpdateDone(r)

SpecPayout == InitPayout /\ [][NextPayout]_vars

\* ------------------------------------------------------------- charge spec
InitCharge ==
    /\ cache = EmptyCache
    /\ promises = <<>>
    /\ outstanding = {}
    /\ httpCalls = 0
    /\ clock = 0
    /\ reqs = [r \in 1..MaxCharges |-> IdleReq]
    /\ txs = [t \in TxIds |-> NewTx]
    /\ projects = [j \in ProjIds |-> "in_progress"]
    /\ b2cSent = <<>>
    /\ deliveries = NoDeliveries
    /\ granted = NoGrant
    /\ stkSent = <<>>
    /\ limits \in {NoLimits(store) : store \in LimiterStores}
    /\ validation = NoValidation

NextCharge ==
    \/ \E r \in 1..MaxCharges, ip \in Ips, body \in StkBodies, syncThrow \in BOOLEAN :
            STKPush(r, ip, body, syncThrow)
    \/ \E r \in 1..MaxCharges, ip \in Ips, body \in QueryBodies, syncThrow \in BOOLEAN :
            QueryStk(r, ip, body, syncThrow)
    \/ \E r \in 1..MaxCharges : ChargeTokenResume(r)
    \/ \E p \in 1..MaxAcq, resp \in AuthResponses : AuthRespond(p, resp)
    \/ \E r \in 1..MaxCharges, resp \in StkResponses : ChargeProviderRespond(r, resp)

SpecCharge == InitCharge /\ [][NextCharge]_vars

\* -------------------------------------------------------------- frame spec
\* a body that passes the validation of the route
ValidBody(route) ==
    IF route = "stk-push"
    THEN [NoBody EXCEPT !.phoneNumber = [present |-> TRUE, s |-> Phone1],
                        !.amount = [k |-> "num", t |-> 14]]
    ELSE [NoBody EXCEPT !.checkoutRequestID = "ws_CO_1"]

\* charges, status queries, charge callbacks and payout-timeout notices
\* while two payouts wait for their result
InitFrame ==
    /\ cache = EmptyCache
    /\ promises = <<>>
    /\ outstanding = {}
    /\ httpCalls = 0
    /\ clock = 0
    /\ reqs = [r \in 1..MaxCharges |-> IdleReq]
    /\ txs = [t \in TxIds |->
                [NewTx EXCEPT !.status = "held_in_escrow",
                              !.payment_intent_id = IntentOf(t),
                              !.mpesa_conversation_id =
                                    IF t = "t1" THEN "AG_1" ELSE "AG_2"]]
    /\ projects = [j \in ProjIds |-> "in_progress"]
    /\ b2cSent = <<>>
    /\ deliveries = NoDeliveries
    /\ granted = NoGrant
    /\ stkSent = <<>>
    /\ limits = NoLimits("perKey")
    /\ validation = NoValidation

NextFrame ==
    \/ \E r \in 1..MaxCharges, ip \in Ips, syncThrow \in BOOLEAN,
          body \in {ValidBody("stk-push"), NoBody} :
            STKPush(r, ip, body, syncThrow)
    \/ \E r \in 1..MaxCharges, ip \in Ips, syncThrow \in BOOLEAN,
          body \in {ValidBody("query-stk"), NoBody} :
            QueryStk(r, ip, body, syncThrow)
    \/ \E r \in 1..MaxCharges : ChargeTokenResume(r)
    \/ \E p \in 1..MaxAcq, resp \in LiveAuthResponses : AuthRespond(p, resp)
    \/ \E r \in 1..MaxCharges, resp \in StkResponses : ChargeProviderRespond(r, resp)
    \/ \E body \in BodiesOf("callback/stk-push") :
            /\ Arrived < MaxRelayDeliveries
            /\ Callback("callback/stk-push", body)
    \/ \E body \in RelayResults \cup MalformedBodies :
            /\ Arrived < MaxRelayDeliveries
            /\ Callback("callback/b2c-timeout", body)
    \/ \E body \in RelayResults :
            /\ Arrived < MaxRelayDeliveries
            /\ Callback("callback/b2c-result", body)
    \/ \E d \in deliveries.open, outcome \in StoreOutcomes : CallbackStoreDone(d, outcome)
    \/ \E d \in deliveries.open : CallbackResume(d)

SpecFrame == InitFrame /\ [][NextFrame]_vars

\* ------------------------------------------------------------ limiter spec
\* requests take the slots in the order of their arrival
FirstIdle(r) ==
    /\ reqs[r].pc = "idle"
    /\ \A q \in 1..(r - 1) : reqs[q].pc # "idle"

InitLimiter ==
    /\ cache = EmptyCache
    /\ promises = <<>>
    /\ outstanding = {}
    /\ httpCalls = 0
    /\ clock = 0
    /\ reqs = [r \in 1..MaxLimited |-> IdleReq]
    /\ txs = [t \in TxIds |-> NewTx]
    /\ projects = [j \in ProjIds |-> "in_progress"]
    /\ b2cSent = <<>>
    /\ deliveries = NoDeliveries
    /\ granted = NoGrant
    /\ stkSent = <<>>
    /\ limits \in {NoLimits(store) : store \in LimiterStores}
    /\ validation = NoValidation

\* charge requests arriving over time, the provider not answering yet
NextStkLimiter ==
    \/ \E r \in 1..MaxLimited, ip \in Ips, syncThrow \in BOOLEAN :
            FirstIdle(r) /\ STKPush(r, ip, ValidBody("stk-push"), syncThrow)
    \/ Advance(MaxLimiterTicks * TickMs)

SpecStkLimiter == InitLimiter /\ [][NextStkLimiter]_vars

\* status queries arriving over time, the provider not answering yet
NextQueryLimiter ==
    \/ \E r \in 1..MaxLimited, ip \in Ips, syncThrow \in BOOLEAN :
            FirstIdle(r) /\ QueryStk(r, ip, ValidBody("query-stk"), syncThrow)
    \/ Advance(MaxLimiterTicks * TickMs)

SpecQueryLimiter == InitLimiter /\ [][NextQueryLimiter]_vars

\* -------------------------------------------------------------- phone spec
\* one request to /validate-phone for each phoneNumber
InitPhone ==
    /\ cache = EmptyCache
    /\ promises = <<>>
    /\ outstanding = {}
    /\ httpCalls = 0
    /\ clock = 0
    /\ reqs = [r \in 1..MaxRequests |-> IdleReq]
    /\ txs = [t \in TxIds |-> NewTx]
    /\ projects = [j \in ProjIds |-> "in_progress"]
    /\ b2cSent = <<>>
    /\ deliveries = NoDeliveries
    /\ granted = NoGrant
    /\ stkSent = <<>>
    /\ limits = NoLimits("perKey")
    /\ validation \in {[NoValidation EXCEPT !.phoneNumber = ph] : ph \in PhoneFields}

NextPhone == ValidatePhone

SpecPhone == InitPhone /\ [][NextPhone]_vars

\* ---------------------------------------------------------- callbacks spec
AllTxRows ==
    {[NewTx EXCEPT !.status = st, !.mpesa_conversation_id = c] :
        st \in Statuses, c \in ConvIds \cup {NULL}}

InitCallbacks ==
    /\ cache = EmptyCache
    /\ promises = <<>>
    /\ outstanding = {}
    /\ httpCalls = 0
    /\ clock = 0
    /\ reqs = [r \in 1..MaxPayouts |-> IdleReq]
    /\ txs \in {f \in [TxIds -> AllTxRows] :
                    /\ f["t2"].status = "pending"
                    /\ f["t2"].mpesa_conversation_id # "AG_1"}
    /\ projects = [j \in ProjIds |-> "in_progress"]
    /\ b2cSent = <<>>
    /\ deliveries = NoDeliveries
    /\ granted = NoGrant
    /\ stkSent = <<>>
    /\ limits = NoLimits("perKey")
    /\ validation = NoValidation

NextCallbacks ==
    \/ \E route \in CallbackRoutes :
        \E body \in BodiesOf(route) :
            /\ Arrived < MaxDeliveries
            /\ Callback(route, body)
    \/ \E d \in deliveries.open, outcome \in StoreOutcomes : CallbackStoreDone(d, outcome)
    \/ \E d \in deliveries.open : CallbackResume(d)

SpecCallbacks == InitCallbacks /\ [][NextCallbacks]_vars

\* ------------------------------------------------------------- cache spec
InitCache ==
    /\ cache = EmptyCache
    /\ promises = <<>>
    /\ outstanding = {}
    /\ httpCalls = 0
    /\ clock = 0
    /\ reqs = [r \in 1..MaxRequests |-> IdleReq]
    /\ txs = [t \in TxIds |-> NewTx]
    /\ projects = [j \in ProjIds |-> "in_progress"]
    /\ b2cSent = <<>>
    /\ deliveries = NoDeliveries
    /\ granted = NoGrant
    /\ stkSent = <<>>
    /\ limits = NoLimits("perKey")
    /\ validation = NoValidation

NextCache ==
    \/ \E r \in 1..MaxRequests : TestToken(r)
    \/ \E r \in 1..MaxRequests : TestTokenResume(r)
    \/ \E p \in 1..MaxAcq, resp \in AuthResponses : AuthRespond(p, resp)
    \/ Tick

SpecCache == InitCache /\ [][NextCache]_vars

\* =========================================================== token cache claims
Calls(r) == reqs[r].pc = "idle" /\ reqs'[r].pc # "idle"

FailedResp == {"notoken", "reject", "timeout", "threw"}

Completes(p) ==
    /\ p \in 1..Len(promises')
    /\ promises'[p].resp # "pending"
    /\ p \in 1..Len(promises) => promises[p].resp = "pending"

\* C1: at every instant at most one call to the token endpoint is outstanding,
\* whatever the number of callers and the order of calls and completions.
C1_AtMostOneOutstanding == Cardinality(outstanding) <= 1

C1_Witness ==
    \E r1, r2 \in DOMAIN reqs :
        /\ r1 # r2
        /\ reqs[r1].pc = "awaitToken" /\ reqs[r2].pc = "awaitToken"
        /\ reqs[r1].via = "started" /\ reqs[r2].via = "joined"
        /\ reqs[r1].p = reqs[r2].p
        /\ outstanding = {reqs[r1].p}

\* C2: the callers that call while no valid token is cached and an acquisition
\* is running all get that acquisition's outcome (the token the provider gave
\* it, or the acquisition error), and the group costs one provider call: the
\* caller that starts the acquisition issues one, those that join issue none.
C2_SharedOutcome ==
    /\ [](\A r \in DOMAIN reqs :
            reqs[r].pc = "done" /\ reqs[r].via \in {"started", "joined"} =>
                /\ reqs[r].tok = IF promises[reqs[r].p].resp = "token"
                                 THEN promises[reqs[r].p].rtok ELSE TokenError
                /\ reqs[r].status = IF promises[reqs[r].p].resp = "token"
                                    THEN 200 ELSE 500)
    /\ [][\A r \in DOMAIN reqs :
            Calls(r) /\ ~(cache.token # NULL /\ cache.expiresAt > clock) =>
                IF outstanding # {}
                THEN /\ httpCalls' = httpCalls
                     /\ outstanding' = outstanding
                     /\ reqs'[r].p \in outstanding
                ELSE reqs'[r].via = "started" => httpCalls' = httpCalls + 1]_vars

C2_Witness ==
    \E r1, r2 \in DOMAIN reqs :
        /\ r1 # r2
        /\ reqs[r1].pc = "done" /\ reqs[r2].pc = "done"
        /\ reqs[r1].via = "started" /\ reqs[r2].via = "joined"
        /\ reqs[r1].p = reqs[r2].p
        /\ reqs[r1].tok = reqs[r2].tok
        /\ httpCalls = 1

\* C3: a call made while a token is cached and now < expiresAt returns that
\* token at once and starts no provider call; a call made with a cached token
\* at or past expiresAt and nothing in flight does not return it and starts
\* exactly one acquisition, whose result it waits for.
C3_CachedOrRefreshed ==
    [][\A r \in DOMAIN reqs :
        Calls(r) /\ cache.token # NULL =>
            IF clock < cache.expiresAt
            THEN /\ reqs'[r].pc = "done"
                 /\ reqs'[r].tok = cache.token
                 /\ httpCalls' = httpCalls
                 /\ promises' = promises
            ELSE outstanding = {} =>
                 /\ reqs'[r].pc = "awaitToken"
                 /\ reqs'[r].tok = NULL
                 /\ reqs'[r].via = "started"
                 /\ reqs'[r].p = Len(promises) + 1
                 /\ Len(promises') = Len(promises) + 1
                 /\ httpCalls' = httpCalls + 1]_vars

C3_Witness ==
    \E r1, r2 \in DOMAIN reqs :
        /\ reqs[r1].pc = "done" /\ reqs[r1].via = "cache" /\ reqs[r1].tok \in Tokens
        /\ reqs[r2].via = "started"
        /\ promises[reqs[r2].p].prevToken = reqs[r1].tok
        /\ httpCalls = 2

\* C4: when an acquisition fails (the provider call rejects or times out, or
\* the response has no access_token) the cache is left with no token and
\* expiresAt 0, and every caller that waited on it gets the acquisition error.
C4_FailureResetsCache ==
    /\ [][\A p \in 1..Len(promises') :
            Completes(p) /\ promises'[p].resp \in FailedResp =>
                /\ cache'.token = NULL
                /\ cache'.expiresAt = 0
                /\ promises'[p].st = "rejected"
                /\ promises'[p].val = TokenError]_vars
    /\ [](\A r \in DOMAIN reqs :
            /\ reqs[r].pc = "done"
            /\ reqs[r].via \in {"started", "joined"}
            /\ promises[reqs[r].p].resp \in FailedResp
            => reqs[r].tok = TokenError)

C4_Witness ==
    \E r \in DOMAIN reqs :
        /\ reqs[r].pc = "done" /\ reqs[r].tok = TokenError
        /\ promises[reqs[r].p].resp \in {"notoken", "reject", "timeout"}
        /\ promises[reqs[r].p].prevToken \in Tokens
        /\ cache.token = NULL /\ cache.expiresAt = 0

\* C5: once an acquisition has completed, on any path, the in-flight marker
\* does not point at it any more.
C5_MarkerClearedAfterCompletion ==
    \A p \in 1..Len(promises) : promises[p].st # "pending" => cache.inFlight # p

\* C6: the cache issues a provider call only inside a caller's call, one per
\* acquisition; a failed acquisition rejects its promise, leaves no call
\* outstanding, and its callers are answered with the error.
C6_NoRetryByCache ==
    /\ [][/\ httpCalls' # httpCalls =>
                /\ httpCalls' = httpCalls + 1
                /\ \E r \in DOMAIN reqs : Calls(r) /\ reqs'[r].via = "started"
          /\ \A p \in 1..Len(promises') :
                Completes(p) /\ promises'[p].resp \in FailedResp =>
                    /\ promises'[p].st = "rejected"
                    /\ outstanding' = {}]_vars
    /\ [](httpCalls = Len(promises))
    /\ [](\A r \in DOMAIN reqs :
            /\ reqs[r].pc = "done"
            /\ reqs[r].via \in {"started", "joined"}
            /\ promises[reqs[r].p].resp \in FailedResp
            => reqs[r].status = 500)

C6_Witness ==
    /\ httpCalls = 1
    /\ outstanding = {}
    /\ promises[1].resp \in FailedResp
    /\ \A r \in DOMAIN reqs : reqs[r].pc = "done" /\ reqs[r].status = 500

\* C7: the expiresAt stored with a token is strictly earlier than the expiry
\* the provider declared (time of the response plus expires_in seconds).
C7_ExpiresBeforeDeclared ==
    cache.token # NULL /\ granted.ei.k = "num" =>
        cache.expiresAt < granted.at + granted.ei.n * 1000

\* =========================================================== callback claims
\* C8: every delivery to a callback endpoint is answered 200 with result code
\* 0 and description "Accepted".
C8_AlwaysAccepted == deliveries.n > 0 => deliveries.answer = Accepted

\* C9: a payout-result callback with code 0 and conversation id X sets the
\* rows whose mpesa_conversation_id is X to released with the provider's
\* transaction id (when it sent one), code 0 and the result description; with
\* a nonzero code it sets them to failed with that code and description; rows
\* with another conversation id keep every column.  So every delivery with a
\* result envelope sends its update to the store, and the store, applying it,
\* changes the rows in this way.
C9_ResultCallbackUpdatesMatching ==
    /\ [](deliveries.n > 0 /\ deliveries.route = "callback/b2c-result"
            /\ deliveries.body.kind = "ok"
            => deliveries.store # "none")
    /\ [][\A d \in deliveries.open :
            /\ d.route = "callback/b2c-result"
            /\ d.store = "sent"
            /\ [d EXCEPT !.store = "ok"] \in deliveries'.open
            => LET b == d.body IN
                \A t \in TxIds :
                    IF txs[t].mpesa_conversation_id # b.ConversationID
                    THEN txs'[t] = txs[t]
                    ELSE IF b.ResultCode = 0
                    THEN txs'[t] =
                            [txs[t] EXCEPT
                                !.status = "released",
                                !.mpesa_transaction_id =
                                    IF b.params.shape = "array"
                                    THEN b.params.TransactionID ELSE @,
                                !.b2c_result_code = <<[js |-> "string", n |-> 0]>>,
                                !.b2c_result_description = b.ResultDesc]
                    ELSE txs'[t] =
                            [txs[t] EXCEPT
                                !.status = "failed",
                                !.b2c_result_code =
                                    <<[js |-> "number", n |-> b.ResultCode]>>,
                                !.b2c_result_description = b.ResultDesc]]_vars

\* =========================================================== payout claims
\* C10: once a payout whose provider call was acknowledged has been answered
\* (its transactions update applied, no callback delivered yet), the
\* referenced row is released and holds the ConversationID of the
\* acknowledgment.
C10_StoresProviderConversationId ==
    \A r \in DOMAIN reqs :
        /\ reqs[r].route = "b2c-payment"
        /\ reqs[r].pc = "done"
        /\ reqs[r].status = 200
        /\ reqs[r].txWrite = "ok"
        /\ reqs[r].body.transaction \in TxIds
        /\ Arrived = 0
        => /\ txs[reqs[r].body.transaction].status = "released"
           /\ txs[reqs[r].body.transaction].mpesa_conversation_id
                = reqs[r].ack.ConversationID

\* ---------------------------------------------------------------------
\* the status changes section 4.2 allows
AllowedTransitions ==
    {<<"pending", "held_in_escrow">>, <<"held_in_escrow", "released">>,
     <<"pending", "failed">>, <<"held_in_escrow", "failed">>}

\* C11: over escrow confirmations, payout requests and payout-result
\* callbacks every change of a row's status is pending -> held_in_escrow,
\* held_in_escrow -> released, pending -> failed or held_in_escrow -> failed;
\* a released row is never set to failed or held_in_escrow afterwards and a
\* failed row is never released afterwards.
C11_OnlyForwardTransitions ==
    [][\A t \in TxIds :
          txs'[t].status # txs[t].status =>
              <<txs[t].status, txs'[t].status>> \in AllowedTransitions]_vars

\* amount 0, or an amount below 1 KES
BadCharge(body) ==
    \/ ~body.phoneNumber.present
    \/ body.amount.k = "undef"
    \/ (body.amount.k = "num" /\ body.amount.t < 10)

\* C13: a charge request without phoneNumber, without amount, with amount 0
\* or with an amount below 1 is answered with a 4xx status, and on its way
\* no token is requested and no charge is submitted to the provider.
C13_BadChargeRejected ==
    /\ [][\A r \in DOMAIN reqs :
            (reqs[r].pc = "idle" /\ reqs'[r].route = "stk-push"
                /\ BadCharge(reqs'[r].body))
            => /\ reqs'[r].pc = "done"
               /\ reqs'[r].status \in 400..499
               /\ reqs'[r].via = "none"
               /\ httpCalls' = httpCalls
               /\ promises' = promises
               /\ stkSent' = stkSent]_vars
    /\ [][\A r \in DOMAIN reqs :
            reqs[r].pc = "done" => reqs'[r] = reqs[r]]_vars

\* a charge of 0.5 KES for a valid phone number has been refused
C13_Witness ==
    \E r \in DOMAIN reqs :
        /\ reqs[r].route = "stk-push"
        /\ reqs[r].body.phoneNumber.present
        /\ reqs[r].body.amount = [k |-> "num", t |-> 5]
        /\ reqs[r].pc = "done"
        /\ reqs[r].status = 400

\* a payout body the validation must refuse: no phoneNumber, no amount, or
\* an amount below 10 KES
BadPayout(body) ==
    \/ ~body.phoneNumber.present
    \/ body.amount.k = "undef"
    \/ (body.amount.k = "num" /\ body.amount.t < 100)

\* C14: a payout request without phoneNumber, without amount or with an
\* amount below 10 is answered with a 4xx status; no token is requested, no
\* payout is submitted and no row of the store is written.
C14_BadPayoutRejected ==
    /\ [][\A r \in DOMAIN reqs :
            (reqs[r].pc = "idle" /\ reqs'[r].route = "b2c-payment"
                /\ BadPayout(reqs'[r].body))
            => /\ reqs'[r].pc = "done"
               /\ reqs'[r].status \in 400..499
               /\ reqs'[r].via = "none"
               /\ httpCalls' = httpCalls
               /\ promises' = promises
               /\ b2cSent' = b2cSent
               /\ txs' = txs
               /\ projects' = projects]_vars
    /\ [][\A r \in DOMAIN reqs :
            (reqs[r].pc = "done" /\ reqs[r].route = "b2c-payment")
                => reqs'[r] = reqs[r]]_vars

\* a payout of 9.5 KES to a valid phone number has been refused
C14_Witness ==
    \E r \in DOMAIN reqs :
        /\ reqs[r].route = "b2c-payment"
        /\ reqs[r].body.phoneNumber.present
        /\ reqs[r].body.amount = [k |-> "num", t |-> 95]
        /\ reqs[r].pc = "done"
        /\ reqs[r].status = 400

\* C15: a payout request without the transaction identifier is refused with
\* a 4xx status as missing input, before any payout is submitted.
C15_MissingTransactionRejected ==
    \A r \in DOMAIN reqs :
        (reqs[r].route = "b2c-payment" /\ reqs[r].body.transaction = UNDEF)
        => /\ reqs[r].pc = "done"
           /\ reqs[r].status \in 400..499
           /\ b2cSent = <<>>

\* the project-completion step of request r is ending without completing
\* the project: not found, a store error, or an exception inside updateProject
ProjectStepFails(r) ==
    /\ \/ reqs[r].pc = "awaitProjSelect"
       \/ reqs[r].pc = "resumeProjUpdate" /\ reqs[r].projWrite # "ok"
    /\ reqs'[r].pc = "done"

\* C16: when the payout names a project and the project-completion step
\* fails, the caller still gets the success answer and the step leaves the
\* transactions as the payout wrote them.
C16_ProjectFailureTolerated ==
    [][\A r \in DOMAIN reqs :
          ProjectStepFails(r) => reqs'[r].status = 200 /\ txs' = txs]_vars

\* a payout for t1 with project p1 ended with 200, t1 released, and the
\* project still not completed
C16_Witness ==
    \E r \in DOMAIN reqs :
        /\ reqs[r].route = "b2c-payment"
        /\ reqs[r].pc = "done" /\ reqs[r].status = 200
        /\ reqs[r].body.finalProjectId = "p1"
        /\ reqs[r].body.transaction = "t1"
        /\ reqs[r].txWrite = "ok"
        /\ txs["t1"].status = "released"
        /\ projects["p1"] = "in_progress"

\* ---------------------------------------------------------------------
\* the requests to route that arrived from the IP of request r before it
Earlier(route, r) ==
    {q \in 1..(r - 1) : reqs[q].route = route /\ reqs[q].ip = reqs[r].ip}

\* the requests among them that arrived less than 60 seconds before r
Recent(route, r) ==
    {q \in Earlier(route, r) : reqs[r].at - reqs[q].at < 60 * 1000}

ReachedHandler(r) == reqs[r].pc # "idle" /\ reqs[r].status # 429

RefusedByLimiter(r) ==
    reqs[r].pc = "done" /\ reqs[r].status = 429 /\ reqs[r].via = "none"

\* C17 as stated: of the status queries of one IP, one that follows four or
\* more others inside 60 seconds is refused by the limiter without any
\* outbound call, and one that follows fewer than four is let through.
C17_FifthInSixtySecondsRefused ==
    \A r \in DOMAIN reqs :
        reqs[r].route = "query-stk" =>
            IF Cardinality(Recent("query-stk", r)) >= 4
            THEN RefusedByLimiter(r) ELSE ReachedHandler(r)

\* the charge requests of the IP of r that reached the handler less than 60
\* seconds before r
RecentReached(r) == {q \in Recent("stk-push", r) : ReachedHandler(q)}

\* C18 as stated: per IP, in any rolling 60-second window at most three
\* charge requests reach the handler, further ones get the too-many-requests
\* answer, and the requests of other IPs do not count.
C18_ThreePerRollingWindow ==
    \A r \in DOMAIN reqs :
        reqs[r].route = "stk-push" =>
            IF Cardinality(RecentReached(r)) >= 3
            THEN RefusedByLimiter(r) ELSE ReachedHandler(r)

\* ---------------------------------------------------------------------
Digits == {"0", "1", "2", "3", "4", "5", "6", "7", "8", "9"}

Canonical254 == <<"2", "5", "4">> \o Subscriber

\* C19: for every string p, formatPhoneNumber(p) holds no whitespace, dash
\* or plus, starts with 254, and is a fixed point of formatPhoneNumber;
\* 0746221954, +254746221954 and 746221954 all give 254746221954, and the
\* number /validate-phone answers with is that result.
C19_FormatIdempotentCanonical ==
    LET p == validation.phoneNumber.s
        f == formatPhoneNumber(p)
    IN  /\ \A i \in 1..Len(f) : f[i] \notin Whitespace \cup {"-", "+"}
        /\ Len(f) >= 3 /\ SubSeq(f, 1, 3) = <<"2", "5", "4">>
        /\ formatPhoneNumber(f) = f
        /\ p \in {<<"0">> \o Subscriber, <<"+", "2", "5", "4">> \o Subscriber,
                   Subscriber} => f = Canonical254
        /\ (validation.pc = "done" /\ validation.status = 200)
                => validation.formatted = f

\* +254 746-221 954 has been validated and came back as 254746221954
C19_Witness ==
    /\ validation.pc = "done"
    /\ validation.phoneNumber.s =
            <<"+", "2", "5", "4", " ", "7", "4", "6", "-", "2", "2", "1", " ", "9", "5", "4">>
    /\ validation.formatted = Canonical254

\* the string is twelve decimal digits of which the first three are 254
TwelveDigits254(f) ==
    /\ Len(f) = 12
    /\ \A i \in 1..Len(f) : f[i] \in Digits
    /\ SubSeq(f, 1, 3) = <<"2", "5", "4">>

\* C20: /validate-phone answers isValid = true only when the normalized
\* number is exactly 12 digits with prefix 254; without phoneNumber, or when
\* the normalized form is not 12 digits (non-digit characters included), it
\* answers with a 4xx status.
C20_ValidOnlyTwelveDigits ==
    validation.pc = "done" =>
        IF validation.phoneNumber.present
            /\ TwelveDigits254(formatPhoneNumber(validation.phoneNumber.s))
        THEN validation.status = 200 /\ validation.isValid
        ELSE validation.status \in 400..499 /\ ~validation.isValid

\* ---------------------------------------------------------------------
\* C21: the Password and Timestamp of every charge submission and every
\* status query are the ones generatePassword computed for that request at
\* the time the payload was built (Timestamp the request time as
\* YYYYMMDDHHmmss, Password the base64 text of shortCode + passKey + that
\* Timestamp), never a fixed literal.
C21_FreshPasswordAndTimestamp ==
    \A i \in DOMAIN stkSent :
        /\ stkSent[i].Timestamp = TimestampOf(stkSent[i].builtAt)
        /\ stkSent[i].Password =
                Base64(SHORT_CODE, PASS_KEY, TimestampOf(stkSent[i].builtAt))

\* C22: every payout submission carries, as its originator conversation id,
\* the idempotency token the caller supplied with the request it belongs to,
\* so requests with different tokens are submitted with different ids.
C22_CallerTokenIsOriginatorId ==
    \A i \in DOMAIN b2cSent :
        \E r \in DOMAIN reqs :
            /\ reqs[r].route = "b2c-payment"
            /\ b2cSent[i] = b2cPayload(reqs[r].body, reqs[r].tok)
            /\ b2cSent[i].OriginatorConversationID =
                    reqs[r].body.originatorConversationID

\* C24: the charge request, the status query, the charge callback (success
\* and failure result codes) and the payout-timeout callback leave the record
\* store as it is: no row of transactions or projects is created, updated or
\* deleted.  Run next to payout-result deliveries, every step that changes a
\* row is the store step of such a delivery.
C24_StoreUntouched ==
    [][(txs' # txs \/ projects' # projects) =>
          \E d \in deliveries.open :
              /\ d.route = "callback/b2c-result"
              /\ d.store = "sent"
              /\ [d EXCEPT !.store = "ok"] \in deliveries'.open]_vars

\* a status query has been answered 200 and a payout-timeout notice naming
\* the conversation of row t1 has been accepted
C24_Witness ==
    /\ \E r \in DOMAIN reqs :
          /\ reqs[r].route = "query-stk"
          /\ reqs[r].pc = "done" /\ reqs[r].status = 200
    /\ deliveries.route = "callback/b2c-timeout"
    /\ deliveries.body.kind = "ok"
    /\ deliveries.body.ConversationID = txs["t1"].mpesa_conversation_id
    /\ deliveries.answer = Accepted
    /\ txs["t1"].status = "held_in_escrow"

\* ---------------------------------------------------------------------
\* the token acquisition request r waits for, or waited for, has failed
TokenFailedFor(r) ==
    /\ reqs[r].p \in 1..Len(promises)
    /\ promises[reqs[r].p].resp \in {"reject", "timeout", "notoken", "threw"}

\* no payout request has been acknowledged by the provider
NoneAcknowledged == \A r \in DOMAIN reqs : reqs[r].ack = NoAck

\* C25: a payout request whose token acquisition fails, or whose payout call
\* the provider does not acknowledge, is answered with a 5xx status and
\* writes nothing: its transaction is not marked released and its project is
\* not marked completed.
C25_FailureBeforeAckWritesNothing ==
    /\ [](\A r \in DOMAIN reqs :
            (reqs[r].route = "b2c-payment" /\ TokenFailedFor(r))
            => /\ reqs[r].pc \in {"awaitToken", "done"}
               /\ reqs[r].pc = "done" => reqs[r].status \in 500..599)
    /\ [](\A r \in DOMAIN reqs :
            (reqs[r].route = "b2c-payment" /\ reqs[r].pc = "done"
                /\ reqs[r].via # "none" /\ reqs[r].ack = NoAck)
            => reqs[r].status \in 500..599 /\ reqs[r].txWrite = "none")
    /\ [](NoneAcknowledged =>
            /\ \A t \in TxIds : txs[t].status # "released"
            /\ \A j \in ProjIds : projects[j] # "completed")
    /\ [][\A r \in DOMAIN reqs :
            (reqs[r].pc \in {"awaitToken", "awaitB2C"} /\ reqs'[r].pc = "done"
                /\ reqs'[r].ack = NoAck)
            => txs' = txs /\ projects' = projects]_vars

\* a payout for t1 and project p1 got its token, the provider refused the
\* payout, and the request ended with 500
C25_Witness ==
    \E r \in DOMAIN reqs :
        /\ reqs[r].route = "b2c-payment"
        /\ reqs[r].body.transaction = "t1" /\ reqs[r].body.finalProjectId = "p1"
        /\ reqs[r].tok \in Tokens
        /\ reqs[r].pc = "done" /\ reqs[r].status = 500 /\ reqs[r].ack = NoAck
        /\ txs["t1"].status = "held_in_escrow"
        /\ projects["p1"] = "in_progress"

\* C26: a project is completed by a payout only after the provider
\* acknowledged the payout and the update of the transaction took effect (the
\* row the request names is released), and never by a request without a
\* project id.
C26_CompletedOnlyAfterRelease ==
    \A j \in ProjIds :
        projects[j] = "completed" =>
            \E r \in DOMAIN reqs :
                /\ reqs[r].route = "b2c-payment"
                /\ reqs[r].body.finalProjectId = j
                /\ reqs[r].ack # NoAck
                /\ reqs[r].txWrite = "ok"
                /\ reqs[r].body.transaction \in TxIds
                /\ txs[reqs[r].body.transaction].status = "released"

\* C28: every charge submission carries an Amount that is an integer of at
\* least 1 and every payout submission an Amount that is an integer of at
\* least 10, whatever amount the request body held (integer, fractional,
\* negative or no number at all).
C28_AmountIsIntegerAboveMinimum ==
    /\ \A i \in DOMAIN stkSent :
          stkSent[i].endpoint = "stkpush/v1/processrequest" =>
              /\ Len(stkSent[i].Amount) = 1
              /\ stkSent[i].Amount[1] >= 1
    /\ \A i \in DOMAIN b2cSent :
          /\ Len(b2cSent[i].Amount) = 1
          /\ b2cSent[i].Amount[1] >= 10

\* ---------------------------------------------------------------------
\* C23: abandoning the request that started a token acquisition, or one that
\* waits on it, does not interrupt the acquisition: it still runs to its
\* completion, a successful completion stores the token, and a call made
\* before expiresAt is then served from the cache without a provider call.
C23_AbandonDoesNotInterrupt ==
    /\ [][\A r \in DOMAIN reqs :
            (~reqs[r].abandoned /\ reqs'[r].abandoned)
            => /\ outstanding' = outstanding
               /\ promises' = promises
               /\ cache' = cache
               /\ httpCalls' = httpCalls]_vars
    /\ \A p \in 1..MaxAcq : (p \in outstanding) ~> (p \notin outstanding)
    /\ [][\A p \in outstanding :
            (p \notin outstanding' /\ promises'[p].resp = "token")
            => /\ cache'.token = promises'[p].rtok
               /\ cache'.inFlight = 0]_vars
    /\ [][\A r \in DOMAIN reqs :
            (Calls(r) /\ cache.token # NULL /\ clock < cache.expiresAt)
            => /\ httpCalls' = httpCalls
               /\ reqs'[r].via = "cache"
               /\ reqs'[r].tok = cache.token]_vars

\* the request that started the acquisition was abandoned while it was
\* outstanding; the acquisition stored its token and another request was
\* served from the cache, with one provider call in all
C23_Witness ==
    \E r, q \in DOMAIN reqs :
        /\ reqs[r].abandoned /\ reqs[r].via = "started"
        /\ reqs[r].p \in 1..Len(promises)
        /\ promises[reqs[r].p].resp = "token"
        /\ cache.token = promises[reqs[r].p].rtok
        /\ reqs[q].via = "cache" /\ reqs[q].tok = cache.token
        /\ httpCalls = 1

\* C27: every call of generateAccessToken ends with a token or an error:
\* given that the provider call answers or runs into its timeout, neither
\* the caller that started the acquisition nor one that waits on it waits
\* forever.
C27_EveryCallCompletes ==
    \A r \in 1..MaxLiveRequests :
        (reqs[r].pc = "awaitToken") ~>
            (reqs[r].pc = "done" /\ reqs[r].status \in {200, 500})

\* a request that joined an acquisition has been answered with the error of
\* its timeout
C27_Witness ==
    \E r \in DOMAIN reqs :
        /\ reqs[r].via = "joined"
        /\ reqs[r].pc = "done" /\ reqs[r].status = 500
        /\ reqs[r].tok = TokenError
        /\ promises[reqs[r].p].resp = "timeout"

====
